---- MODULE Spec2Model ----
(***************************************************************************)
(* avr-doomclock: the streaming NMEA sentence decoder (nmea.c), the byte   *)
(* source it reads from, and the control loop of the clock (main.c).       *)
(* Bytes are integers 0..255; characters are their ASCII codes.            *)
(***************************************************************************)
EXTENDS Integers, Sequences, FiniteSets, TLC

VARIABLES
    input,          \* the bytes the serial line delivers (g_currentSentence)
    idx,            \* how many of them were consumed (g_sentenceIdx)
    withDate,       \* ENABLE_GPS_DATE
    layout,         \* what the build placed directly behind _gpsTime in memory
    pc,             \* position of the control thread
    frame,          \* locals of the running gps_read_time call
    status,         \* value returned by the last gps_read_time call
    gpsTime,        \* GpsTime output, as its bytes (C index k is gpsTime[k+1])
    reads,          \* uart_read_byte calls made by the current gps_read_time call
    calls,          \* gps_read_time calls made so far
    startIdx,       \* idx when the current gps_read_time call began
    prevStatus,     \* status returned by the call before the current one
    oobWrite,       \* the current call wrote behind the end of the GpsTime
    gen,            \* how the input was put together (description of the case)
    timezoneOffset, \* _timezoneOffset
    display_buf,    \* _display_buf
    waitIndicator,  \* display_no_signal's static waitIndicator
    eeprom,         \* the byte stored at EEPROM_TIMEZONE_ADDR
    eepromWrites,   \* number of unchecked_eeprom_write calls in this iteration
    reading,        \* main: reading
    numReads,       \* main: numReads
    oldTimezone,    \* main: oldTimezone
    increments,     \* increment_timezone calls made so far
    held,           \* passes of the debounce loop made in the current press
    seqIncs,        \* increment_timezone calls made in the current loop iteration
    iterCap,        \* loop iterations followed
    pressCap,       \* increment_timezone calls followed
    pinLoad,        \* level of PIN_LOAD (timepulse pulls it low)
    pinRx,          \* level of PIN_SOFT_RX
    pcif,           \* GIFR.PCIF
    firstEvent,     \* which line changed first after PCIF was cleared
    displayPending, \* DIDR0.AIN0D
    digitRegs,      \* MAX7219 digit registers 1..6
    intensity,      \* MAX7219 intensity register
    bright,         \* display_adjust_brightness's statics
    lightSeen,      \* the readings display_adjust_brightness was called with
    rx,             \* softuart.c: the receiver's locals, the line and its clock
    bufStamp,       \* per buffer entry: 2 written by the current composition,
                    \* 1 left by an earlier composition or clobbered, 0 already sent
    bufKind,        \* what the last composition put into the buffer
    sends,          \* display_buffer_send calls in the current loop iteration
    sentKinds,      \* kinds of the frames sent in the current loop iteration
    sentFrame,      \* the frame sent by the last display_buffer_send
    sentStamp,      \* bufStamp as that display_buffer_send found it
    tpResult,       \* what the last wait_for_timepulse returned
    iter            \* loop iterations started

decVars  == <<input, idx, frame, status, gpsTime, reads, calls, startIdx,
              prevStatus, oobWrite>>
cfgVars  == <<withDate, layout, gen, iterCap, pressCap, rx>>
tzRest   == <<eeprom, eepromWrites, reading, numReads, oldTimezone, increments,
              held, seqIncs>>
tzVars   == <<timezoneOffset, tzRest>>
pinVars  == <<pinLoad, pinRx, pcif, firstEvent, tpResult>>
dispRest == <<waitIndicator, displayPending, digitRegs, bufKind, sends,
              sentKinds, sentFrame, sentStamp>>
dispVars == <<display_buf, bufStamp, dispRest>>
lightVars == <<intensity, bright, lightSeen>>
vars == <<decVars, cfgVars, tzVars, pinVars, dispVars, lightVars, pc, iter>>

----------------------------------------------------------------------------
(* Bounds of the model *)

MaxCalls  == 4      \* gps_read_time calls followed on one stream
MaxFrac   == 2      \* fraction digits of a timestamp
MaxTsPairs == 4     \* digit pairs of an over-long timestamp field

----------------------------------------------------------------------------
(* Characters *)

LF     == 10
CR     == 13
Dollar == 36
Star   == 42
Comma  == 44
Dot    == 46
Chr0   == 48
Chr9   == 57
ChrA   == 65
ChrF   == 70
GPRMC  == <<71, 80, 82, 77, 67>>

(* NMEA sentences are limited to 79 characters *)
MaxSentence == 79

(* enum GPRMCField *)
GPRMC_SentenceType == 0
GPRMC_Timestamp    == 1
GPRMC_DateStamp    == 9

(* enum NmeaReadState *)
kSearchStart    == "kSearchStart"
kSkipSentence   == "kSkipSentence"
kReadType       == "kReadType"
kReadFields     == "kReadFields"
kChecksumVerify == "kChecksumVerify"

(* enum GpsReadStatus; NoStatus: the call has not returned *)
kGPS_Success         == "kGPS_Success"
kGPS_NoSignal        == "kGPS_NoSignal"
kGPS_NoMatch         == "kGPS_NoMatch"
kGPS_InvalidChecksum == "kGPS_InvalidChecksum"
kGPS_BadFormat       == "kGPS_BadFormat"
NoStatus             == "none"

(* sizeof(GpsTime) *)
NumFields(date) == IF date THEN 6 ELSE 3

----------------------------------------------------------------------------
(* 8-bit arithmetic *)

U8(x) == x % 256

Bit(a, n) == (a \div (2 ^ n)) % 2

(* a ^ b on two bytes *)
Xor(a, b) ==
    LET X(n) == ((Bit(a, n) + Bit(b, n)) % 2) * (2 ^ n)
    IN  X(0) + X(1) + X(2) + X(3) + X(4) + X(5) + X(6) + X(7)

(* hex2int: two characters to a byte; a character that is no hex digit *)
(* leaves its nibble 0 *)
HexNibble(c) ==
    IF c >= Chr0 /\ c <= Chr9 THEN c - Chr0
    ELSE IF c >= ChrA /\ c <= ChrF THEN c - ChrA + 10
    ELSE 0

hex2int(hexPair) == U8(HexNibble(hexPair[1]) * 16) + HexNibble(hexPair[2])

\* mutant: the ASCII offset of the digits is not taken off
gps_atoi_NoOffset(str) == U8(str[1] * 10 + str[2])

(* gps_atoi: two characters to a number, in uint8_t arithmetic *)
gps_atoi(str) == U8((str[1] - Chr0) * 10 + (str[2] - Chr0))

----------------------------------------------------------------------------
(* gps_read_time *)

\* mutant: the loop counter starts one too high
InitFrame_Eighty ==
    [ calculatedChecksum |-> 0, buffer |-> <<0, 0>>, bufIndex |-> 0,
      outputIndex |-> 0, typeStrIndex |-> 0, state |-> kSearchStart,
      field |-> GPRMC_SentenceType, hitTimeDecimal |-> FALSE,
      sawTimeFields |-> FALSE, i |-> MaxSentence + 1 ]

InitFrame ==
    [ calculatedChecksum |-> 0,
      buffer             |-> <<0, 0>>,   \* not initialised, never read before written
      bufIndex           |-> 0,
      outputIndex        |-> 0,
      typeStrIndex       |-> 0,
      state              |-> kSearchStart,
      field              |-> GPRMC_SentenceType,
      hitTimeDecimal     |-> FALSE,
      sawTimeFields      |-> FALSE,
      i                  |-> MaxSentence ]

(* Outcome of one pass through the switch: the locals, the status returned *)
(* (NoStatus after a continue), and the store into the output, if any.    *)
Continue(f)     == [f |-> f, ret |-> NoStatus, wr |-> <<>>]
Return(f, st)   == [f |-> f, ret |-> st, wr |-> <<>>]
Store(f, k, v)  == [f |-> f, ret |-> NoStatus, wr |-> <<k, v>>]

SearchStartCase(f, byte) ==
    IF byte = LF THEN Return(f, kGPS_NoMatch)
    ELSE IF byte = Dollar THEN Continue([f EXCEPT !.state = kReadType])
    ELSE Continue(f)

SkipSentenceCase(f, byte) ==
    IF byte # LF THEN Continue(f)
    ELSE Return(f, kGPS_NoMatch)

\* mutant: the type is taken as matched one character early
ReadTypeCase_FourChars(f, byte) ==
    LET g == [f EXCEPT !.calculatedChecksum = Xor(f.calculatedChecksum, byte)]
    IN  IF f.typeStrIndex = Len(GPRMC) - 1
        THEN Continue([g EXCEPT !.state = kReadFields])
        ELSE IF byte = GPRMC[f.typeStrIndex + 1]
             THEN Continue([g EXCEPT !.typeStrIndex = f.typeStrIndex + 1])
             ELSE Continue([g EXCEPT !.state = kSkipSentence])

ReadTypeCase(f, byte) ==
    LET g == [f EXCEPT !.calculatedChecksum = Xor(f.calculatedChecksum, byte)]
    IN  IF byte = GPRMC[f.typeStrIndex + 1]
        THEN IF f.typeStrIndex = Len(GPRMC) - 1
             THEN Continue([g EXCEPT !.state = kReadFields])
             ELSE Continue([g EXCEPT !.typeStrIndex = f.typeStrIndex + 1])
        ELSE Continue([g EXCEPT !.state = kSkipSentence])

CollectPair(g, byte) ==
    LET buf == [g.buffer EXCEPT ![g.bufIndex + 1] = byte]
    IN  IF g.bufIndex + 1 = 2
        THEN Store([g EXCEPT !.buffer = buf, !.bufIndex = 0,
                             !.outputIndex = g.outputIndex + 1,
                             !.sawTimeFields = TRUE],
                   g.outputIndex, gps_atoi(buf))
        ELSE Continue([g EXCEPT !.buffer = buf, !.bufIndex = g.bufIndex + 1])

\* mutant: the fields end at the end of the line
ReadFieldsCase_StopAtLF(f, byte, date) ==
    IF byte = LF THEN Return(f, kGPS_BadFormat)
    ELSE IF byte = Star THEN Continue([f EXCEPT !.state = kChecksumVerify])
    ELSE
      LET g == [f EXCEPT !.calculatedChecksum = Xor(f.calculatedChecksum, byte)]
      IN  IF byte = Comma THEN Continue([g EXCEPT !.field = f.field + 1])
          ELSE IF f.field = GPRMC_Timestamp /\ (f.hitTimeDecimal \/ byte = Dot)
          THEN Continue([g EXCEPT !.hitTimeDecimal = TRUE])
          ELSE IF f.field = GPRMC_Timestamp \/ (date /\ f.field = GPRMC_DateStamp)
          THEN CollectPair(g, byte)
          ELSE Continue(g)

ReadFieldsCase(f, byte, date) ==
    IF byte = Star THEN Continue([f EXCEPT !.state = kChecksumVerify])
    ELSE
      LET g == [f EXCEPT !.calculatedChecksum = Xor(f.calculatedChecksum, byte)]
      IN  IF byte = Comma THEN Continue([g EXCEPT !.field = f.field + 1])
          ELSE IF f.field = GPRMC_Timestamp /\ (f.hitTimeDecimal \/ byte = Dot)
          THEN Continue([g EXCEPT !.hitTimeDecimal = TRUE])
          ELSE IF f.field = GPRMC_Timestamp \/ (date /\ f.field = GPRMC_DateStamp)
          THEN CollectPair(g, byte)
          ELSE Continue(g)

ChecksumVerifyCase(f, byte) ==
    LET buf == [f.buffer EXCEPT ![f.bufIndex + 1] = byte]
        g   == [f EXCEPT !.buffer = buf, !.bufIndex = f.bufIndex + 1]
    IN  IF g.bufIndex = 2
        THEN IF hex2int(buf) = f.calculatedChecksum
             THEN IF f.sawTimeFields THEN Return(g, kGPS_Success)
                                     ELSE Return(g, kGPS_NoSignal)
             ELSE Return(g, kGPS_InvalidChecksum)
        ELSE Continue(g)

SwitchState(f, byte, date) ==
    CASE f.state = kSearchStart    -> SearchStartCase(f, byte)
      [] f.state = kSkipSentence   -> SkipSentenceCase(f, byte)
      [] f.state = kReadType       -> ReadTypeCase(f, byte)
      [] f.state = kReadFields     -> ReadFieldsCase(f, byte, date)
      [] f.state = kChecksumVerify -> ChecksumVerifyCase(f, byte)
      [] OTHER                     -> Return(f, kGPS_BadFormat)

\* mutant: the loop counter is never decremented
LoopIteration_NoDecrement(f, byte, date) == SwitchState(f, byte, date)

(* One iteration of the for loop on the byte just read: the switch, then *)
(* --i and the loop test; the loop running out returns kGPS_BadFormat.   *)
LoopIteration(f, byte, date) ==
    LET r == SwitchState(f, byte, date)
    IN  IF r.ret # NoStatus THEN r
        ELSE LET h == [r.f EXCEPT !.i = U8(r.f.i - 1)]
             IN  [f |-> h, wr |-> r.wr,
                  ret |-> IF h.i = 0 THEN kGPS_BadFormat ELSE NoStatus]

----------------------------------------------------------------------------
(* The byte source: uart_read_byte as the decoder's tests emulate it. Past *)
(* the end of the input it delivers NUL for ever, which is also what a    *)
(* line held low makes the software receiver return.                      *)

uart_read_byte(in, k) == IF k < Len(in) THEN in[k + 1] ELSE 0

uart_next_idx(in, k) == IF uart_read_byte(in, k) # 0 THEN k + 1 ELSE k

----------------------------------------------------------------------------
(* Memory behind the GpsTime. A store with outputIndex >= sizeof(GpsTime)  *)
(* is undefined behaviour; the build decides what lies there. layout is    *)
(* the sequence of bytes that follow the struct: "tz" is _timezoneOffset,  *)
(* "d1".."d6" are the entries of _display_buf, and a store behind the end  *)
(* of the layout hits memory the model does not look at.                   *)

Int8(v) == IF v >= 128 THEN v - 256 ELSE v

DispNames == <<"d1", "d2", "d3", "d4", "d5", "d6">>
LayoutNone == <<>>
LayoutTzFirst == <<"tz">> \o DispNames
LayoutDispFirst == DispNames \o <<"tz">>
Layouts == {LayoutNone, LayoutTzFirst, LayoutDispFirst}

DispIndex(name) == CHOOSE j \in 1..6 : DispNames[j] = name

Memory == [time |-> gpsTime, tz |-> timezoneOffset, disp |-> display_buf,
           stamp |-> bufStamp, oob |-> oobWrite]

\* The store of a converted pair at byte outputIndex of the output
MemWrite(m, wr, lay) ==
    IF wr = <<>> THEN m
    ELSE LET k == wr[1]
             v == wr[2]
             n == Len(m.time)
         IN  IF k < n THEN [m EXCEPT !.time[k + 1] = v]
             ELSE IF k - n + 1 > Len(lay) THEN [m EXCEPT !.oob = TRUE]
             ELSE IF lay[k - n + 1] = "tz"
                  THEN [m EXCEPT !.oob = TRUE, !.tz = Int8(v)]
                  ELSE [m EXCEPT !.oob = TRUE,
                                 !.disp[DispIndex(lay[k - n + 1])] = v,
                                 !.stamp[DispIndex(lay[k - n + 1])] = 1]

SetMemory(m) ==
    /\ gpsTime' = m.time
    /\ timezoneOffset' = m.tz
    /\ display_buf' = m.disp
    /\ bufStamp' = m.stamp
    /\ oobWrite' = m.oob

----------------------------------------------------------------------------
(* gps_read_time, one byte per step *)

\* mutant: the checksum accumulator is not reset (as if it were static)
GpsReadTimeEnter_KeepChecksum ==
    /\ frame' = [InitFrame EXCEPT !.calculatedChecksum = frame.calculatedChecksum]
    /\ reads' = 0
    /\ calls' = calls + 1
    /\ startIdx' = idx
    /\ prevStatus' = status
    /\ status' = NoStatus
    /\ oobWrite' = FALSE

(* Entry of gps_read_time: the locals take their initial values *)
GpsReadTimeEnter ==
    /\ frame' = InitFrame
    /\ reads' = 0
    /\ calls' = calls + 1
    /\ startIdx' = idx
    /\ prevStatus' = status
    /\ status' = NoStatus
    /\ oobWrite' = FALSE

(* One iteration of the loop with the parser in state st *)
DecodeStep(st) ==
    /\ pc = "decode"
    /\ frame.state = st
    /\ LET r == LoopIteration(frame, uart_read_byte(input, idx), withDate)
       IN  /\ frame' = r.f
           /\ status' = r.ret
           /\ pc' = IF r.ret = NoStatus THEN "decode" ELSE "returned"
           /\ SetMemory(MemWrite(Memory, r.wr, layout))
    /\ idx' = uart_next_idx(input, idx)
    /\ reads' = reads + 1
    /\ UNCHANGED <<input, calls, startIdx, prevStatus, cfgVars, pinVars, lightVars, iter>>
    /\ UNCHANGED <<tzRest, dispRest>>

SearchStart    == DecodeStep(kSearchStart)
SkipSentence   == DecodeStep(kSkipSentence)
ReadType       == DecodeStep(kReadType)
ReadFields     == DecodeStep(kReadFields)
ChecksumVerify == DecodeStep(kChecksumVerify)

(* The caller of the decoder when only the decoder runs: it calls again   *)
(* on the same stream while input is left.                                *)
CallDecoder ==
    /\ pc \in {"idle", "returned"}
    /\ calls < MaxCalls
    /\ calls = 0 \/ idx < Len(input)
    /\ GpsReadTimeEnter
    /\ pc' = "decode"
    /\ UNCHANGED <<input, idx, gpsTime, cfgVars, tzVars, pinVars, dispVars,
                   lightVars, iter>>

----------------------------------------------------------------------------
(* Input streams. A sentence is put together the way a GPS receiver does  *)
(* it: '$', the body, '*', and the XOR of the body as two upper-case hex   *)
(* digits.                                                                 *)

(* XOR of all bytes of s: bit n of it is the parity of the bytes with bit n set *)
XorSeq(s) ==
    LET P(n) == (Cardinality({k \in 1..Len(s) : Bit(s[k], n) = 1}) % 2) * (2 ^ n)
    IN  P(0) + P(1) + P(2) + P(3) + P(4) + P(5) + P(6) + P(7)

HexChar(n) == IF n < 10 THEN Chr0 + n ELSE ChrA + n - 10
HexPair(b) == <<HexChar(b \div 16), HexChar(b % 16)>>

Rep(b, n) == [k \in 1..n |-> b]
Pair(n) == <<Chr0 + (n \div 10), Chr0 + (n % 10)>>
Clock(t) == Pair(t[1]) \o Pair(t[2]) \o Pair(t[3])
DateStr(t) == Pair(t[4]) \o Pair(t[5]) \o Pair(t[6])
CRLF == <<CR, LF>>

\* ",A,3751.65,S,14507.36,E,000.0,360.0," and ",011.3,E"
MidFull == <<44, 65, 44, 51, 55, 53, 49, 46, 54, 53, 44, 83, 44, 49, 52, 53,
             48, 55, 46, 51, 54, 44, 69, 44, 48, 48, 48, 46, 48, 44, 51, 54,
             48, 46, 48, 44>>
TailFull == <<44, 48, 49, 49, 46, 51, 44, 69>>
\* ",V,,,,,,," and ",,,N": the position fields are empty
MidEmpty == <<44, 86, 44, 44, 44, 44, 44, 44, 44>>
TailEmpty == <<44, 44, 44, 78>>

Sentence(body) == <<Dollar>> \o body \o <<Star>> \o HexPair(XorSeq(body))

RmcBody(ts, frac, full, date) ==
    GPRMC \o <<Comma>> \o ts \o frac
          \o (IF full THEN MidFull ELSE MidEmpty) \o date
          \o (IF full THEN TailFull ELSE TailEmpty)

Times == {<<h, m, s, d[1], d[2], d[3]>> :
              h \in {0, 8, 23}, m \in {5, 59}, s \in {0, 36},
              d \in {<<13, 9, 98>>, <<4, 2, 19>>}}
FracDigits == {48, 55}
Fracs == {<<>>} \cup
         UNION {{<<Dot>> \o d : d \in [1..n -> FracDigits]} : n \in 0..MaxFrac}

WellFormed(t, frac, full) == Sentence(RmcBody(Clock(t), frac, full, DateStr(t)))

NoTime == <<>>
Gen(kind, t1, n1, t2, n2) ==
    [kind |-> kind, t1 |-> t1, n1 |-> n1, t2 |-> t2, n2 |-> n2, flip |-> <<>>]
Case(bytes, kind) == [bytes |-> bytes, gen |-> Gen(kind, NoTime, 0, NoTime, 0)]

(* One well-formed sentence and its line end *)
WellFormedInputs ==
    {[bytes |-> WellFormed(t, frac, full) \o CRLF,
      gen   |-> Gen("wellformed", t, Len(WellFormed(t, frac, full)), NoTime, 0)] :
        t \in Times, frac \in Fracs, full \in BOOLEAN}

(* Two well-formed sentences in a row *)
PairTimes == {<<8, 18, 36, 13, 9, 98>>, <<23, 59, 59, 31, 12, 99>>}
PairFracs == {<<>>, <<Dot, 48, 48>>}
PairSentences ==
    {[t |-> t, s |-> WellFormed(t, frac, full)] :
        t \in PairTimes, frac \in PairFracs, full \in BOOLEAN}
PairInputs ==
    {[bytes |-> a.s \o CRLF \o b.s \o CRLF,
      gen   |-> Gen("pair", a.t, Len(a.s), b.t, Len(b.s))] :
        a \in PairSentences, b \in PairSentences}

(* Bytes without any framing, up to and beyond the length limit *)
\* "[something very unexpected]"
Bogus == <<91, 115, 111, 109, 101, 116, 104, 105, 110, 103, 32, 118, 101, 114,
           121, 32, 117, 110, 101, 120, 112, 101, 99, 116, 101, 100, 93>>
JunkInputs ==
    {Case(Bogus, "junk")} \cup
    {Case(Rep(b, n) \o tail, "junk") :
        b \in {91, 120, 255},
        n \in {0, 27, MaxSentence - 1, MaxSentence, MaxSentence + 1},
        tail \in {<<>>, <<LF>>, <<Dollar>>}}

(* Sentences of another type: the tests' types, and GPRMC with one of its *)
(* characters replaced                                                    *)
OtherTypes ==
    {<<71, 80, 82, 77, 66>>, <<71, 80, 71, 83, 86>>, <<71, 80, 82, 77, 65>>} \cup
    {[GPRMC EXCEPT ![j] = c] : j \in 1..5, c \in {88, LF, Dollar, Comma, Star}}
\* ",A,4.08*3D" and ",081836,A*00"
OtherRests == {<<44, 65, 44, 52, 46, 48, 56, 42, 51, 68>>,
               <<44, 48, 56, 49, 56, 51, 54, 44, 65, 42, 48, 48>>,
               Rep(120, MaxSentence + 1)}
Follower == WellFormed(<<23, 59, 59, 31, 12, 99>>, <<>>, FALSE) \o CRLF
OtherTypeInputs ==
    {Case(<<Dollar>> \o ty \o rest \o CRLF \o follow, "othertype") :
        ty \in OtherTypes, rest \in OtherRests, follow \in {<<>>, Follower}}

(* A GPRMC sentence whose line ends without a checksum *)
\* ",but,not,really" and ",081836,A"
UntermFields == {<<44, 98, 117, 116, 44, 110, 111, 116, 44, 114, 101, 97, 108,
                   108, 121>>,
                 <<44, 48, 56, 49, 56, 51, 54, 44, 65>>,
                 <<>>}
UntermInputs ==
    {Case(<<Dollar>> \o GPRMC \o fields \o CRLF \o follow, "unterminated") :
        fields \in UntermFields,
        follow \in {<<>>, Follower, <<Star, 53, 50>>, Rep(120, MaxSentence + 1)}}

(* GPRMC sentences whose timestamp field has any number of digits, with   *)
(* the right checksum, a wrong one, or only its low digit                 *)
LongDigits == [k \in 1..(2 * MaxTsPairs) |-> Chr0 + ((k * 7) % 10)]
TsFields == {SubSeq(LongDigits, 1, n) : n \in 0..(2 * MaxTsPairs)} \cup
            {<<53>>, <<48, 48, 53>>}
\* ".5,A"
TsRests == {<<>>, <<46, 53, 44, 65>>}
TsBody(ts, rest) == GPRMC \o <<Comma>> \o ts \o rest
Checksums(c) == {HexPair(c), HexPair(Xor(c, 1)), <<HexChar(c % 16)>>}
TimestampInputs ==
    UNION {{Case(<<Dollar>> \o TsBody(ts, rest) \o <<Star>> \o ck \o CRLF,
                 "timestamp") :
              ck \in Checksums(XorSeq(TsBody(ts, rest)))} :
           ts \in TsFields, rest \in TsRests}

(* GPRMC sentences of a receiver without a fix: no time, with or without *)
(* a date, with or without a fraction left in the timestamp field        *)
EmptyTimeInputs ==
    {Case(Sentence(RmcBody(<<>>, frac, FALSE, date)) \o CRLF, "emptytime") :
        frac \in {<<>>, <<Dot, 48, 48>>},
        date \in {<<>>, DateStr(<<0, 0, 0, 4, 2, 19>>)}}

(* "$GPRMC,000007*60" with the low digit of its checksum as it is, in    *)
(* lower case letters, or missing before the end of the line or stream   *)
HexPairTails == {<<48>> \o CRLF, <<97>> \o CRLF, <<103>> \o CRLF, CRLF, <<>>}
HexPairInputs ==
    {Case(<<Dollar>> \o TsBody(Clock(<<0, 0, 7>>), <<>>) \o <<Star, 54>> \o tail,
          "hexpair") : tail \in HexPairTails}

TestInputs == WellFormedInputs \cup PairInputs \cup JunkInputs
              \cup OtherTypeInputs \cup UntermInputs \cup TimestampInputs
              \cup EmptyTimeInputs \cup HexPairInputs

----------------------------------------------------------------------------
(* State after start-up, before the first gps_read_time call *)

kNumDigits == 6

(* softuart.c: uart_read_byte on the line itself. t counts the half-bit  *)
(* delays made since the start edge; wire is what the sender has put on   *)
(* the line, out what the calls returned, samples the reads of the pin    *)
(* made by the call under way.                                            *)
RxIdle == [pc |-> "idle", t |-> 0, bit |-> 0, data |-> 0, samples |-> <<>>,
           wire |-> <<>>, out |-> <<>>]

InitMainState ==
    /\ timezoneOffset = 0
    /\ display_buf = Rep(0, kNumDigits)
    /\ waitIndicator = 0
    /\ eeprom = 255
    /\ eepromWrites = 0
    /\ reading = 0
    /\ numReads = 0
    /\ oldTimezone = 0
    /\ increments = 0
    /\ held = 0
    /\ seqIncs = 0
    /\ iterCap = 0
    /\ pressCap = 0
    /\ pinLoad = 1
    /\ pinRx = 1
    /\ pcif = 0
    /\ firstEvent = "none"
    /\ tpResult = FALSE
    /\ displayPending = FALSE
    /\ digitRegs = Rep(0, kNumDigits)
    /\ intensity = 0
    /\ bright = [averageBuffer |-> Rep(0, 16), writeIndex |-> 0,
                 runningTotal |-> 0]
    /\ lightSeen = <<>>
    /\ rx = RxIdle
    /\ bufStamp = Rep(0, kNumDigits)
    /\ bufKind = "none"
    /\ sends = 0
    /\ sentKinds = <<>>
    /\ sentFrame = <<>>
    /\ sentStamp = <<>>
    /\ iter = 0

InitDecoder ==
    /\ frame = InitFrame
    /\ status = NoStatus
    /\ prevStatus = NoStatus
    /\ reads = 0
    /\ calls = 0
    /\ idx = 0
    /\ startIdx = 0
    /\ oobWrite = FALSE

(* The decoder on its own, as its tests build and drive it: the output is *)
(* a zeroed GpsTime of the caller.                                        *)
Init ==
    /\ \E c \in TestInputs : input = c.bytes /\ gen = c.gen
    /\ withDate \in BOOLEAN
    /\ layout = LayoutNone
    /\ gpsTime = Rep(0, NumFields(withDate))
    /\ pc = "idle"
    /\ InitDecoder
    /\ InitMainState

Next ==
    \/ CallDecoder
    \/ SearchStart
    \/ SkipSentence
    \/ ReadType
    \/ ReadFields
    \/ ChecksumVerify

Spec == Init /\ [][Next]_vars

----------------------------------------------------------------------------
(* A well-formed sentence with one bit of one byte between '$' and '*'    *)
(* flipped. gen.flip is <<position, original byte, flipped byte>>.        *)

FlipBit(b, bit) == Xor(b, 2 ^ bit)

FlipTime == <<8, 18, 36, 13, 9, 98>>
FlipFracs == {<<>>, <<Dot, 54, 55>>}
\* the last two are "$GPRMC,000000.67,V,,,,,,,130998,,,N*76" and
\* "$GPRMC,000000.3,V,,,,,,,130998,,,N*44"
FlipSentences ==
    {WellFormed(FlipTime, frac, full) : frac \in FlipFracs, full \in BOOLEAN}
    \cup {WellFormed(<<0, 0, 0, 13, 9, 98>>, <<Dot, 54, 55>>, FALSE),
          WellFormed(<<0, 0, 0, 13, 9, 98>>, <<Dot, 51>>, FALSE)}

FlipInputs ==
    UNION {{[bytes |-> [s EXCEPT ![j] = FlipBit(s[j], bit)] \o CRLF,
             gen   |-> [Gen("flip", NoTime, Len(s), NoTime, 0)
                          EXCEPT !.flip = <<j, s[j], FlipBit(s[j], bit)>>]] :
              j \in 2..(Len(s) - 3), bit \in 0..7} :
           s \in FlipSentences}

InitFlip ==
    /\ \E c \in FlipInputs : input = c.bytes /\ gen = c.gen
    /\ withDate \in BOOLEAN
    /\ layout = LayoutNone
    /\ gpsTime = Rep(0, NumFields(withDate))
    /\ pc = "idle"
    /\ InitDecoder
    /\ InitMainState

SpecFlip == InitFlip /\ [][Next]_vars

----------------------------------------------------------------------------
(* main.c: time arithmetic *)

MaxIter    == 3     \* iterations of the main loop followed
MaxPresses == 2     \* timezone increments followed

(* int8_t and uint8_t views of a value *)
S8(x) == Int8(x % 256)

RECURSIVE TensOnes(_, _)
(* while (ones >= 10) { ones -= 10; ++tens; } *)
TensOnes(ones, tens) ==
    IF ones >= 10 THEN TensOnes(ones - 10, U8(tens + 1)) ELSE <<tens, ones>>

\* mutant: the hour is clamped to 0..23 instead of wrapped
apply_timezone_offset_Clamp(now, tz) ==
    LET h0 == S8(S8(now[1]) + tz)
        h1 == IF h0 > 23 THEN 23
              ELSE IF h0 < 0 THEN 0
              ELSE h0
    IN  [now EXCEPT ![1] = U8(h1)]

apply_timezone_offset(now, tz) ==
    LET h0 == S8(S8(now[1]) + tz)
        h1 == IF h0 > 23 THEN S8(h0 - 24)
              ELSE IF h0 < 0 THEN S8(h0 + 24)
              ELSE h0
    IN  [now EXCEPT ![1] = U8(h1)]

increment_time(tim) ==
    LET s1 == U8(tim[3] + 1)
        a  == IF s1 = 60 THEN [tim EXCEPT ![3] = 0, ![2] = U8(tim[2] + 1)]
              ELSE [tim EXCEPT ![3] = s1]
        b  == IF a[2] = 60 THEN [a EXCEPT ![2] = 0, ![1] = U8(a[1] + 1)] ELSE a
    IN  IF b[1] = 24 THEN [b EXCEPT ![1] = 0] ELSE b

\* mutant: the offset stays at 13 instead of wrapping
increment_timezone_Saturate(tz) ==
    LET t == S8(tz + 1) IN IF t > 13 THEN 13 ELSE t

increment_timezone(tz) ==
    LET t == S8(tz + 1) IN IF t > 13 THEN -12 ELSE t

(* restore_timezone: the stored byte is taken if it looks like a timezone *)
restore_timezone(stored) ==
    IF Int8(stored) >= -12 /\ Int8(stored) <= 13 THEN Int8(stored) ELSE 0

----------------------------------------------------------------------------
(* main.c: the display buffer. d is [buf, stamp, kind]: the buffer, the    *)
(* stamps of its entries, and what the composition under way is.           *)

BlankCode   == 127
PointCode   == 143
DashCode    == 10
ErrorCode   == 11
PlusCode    == 14

Display == [buf |-> display_buf, stamp |-> bufStamp, kind |-> bufKind]

(* A composition begins: what an earlier one wrote is no longer fresh *)
Begin(d, kind) ==
    [d EXCEPT !.kind = kind,
              !.stamp = [k \in 1..kNumDigits |-> IF d.stamp[k] = 2 THEN 1 ELSE d.stamp[k]]]

display_buffer_set(d, index, value) ==
    [d EXCEPT !.buf[index + 1] = value, !.stamp[index + 1] = 2]

RECURSIVE ClearFrom(_, _)
ClearFrom(d, i) ==
    IF i >= 0 THEN ClearFrom(display_buffer_set(d, i, BlankCode), i - 1) ELSE d

display_clear(d) == ClearFrom(d, kNumDigits - 1)

display_buffer_update(d, now) ==
    LET P(i) == TensOnes(now[i + 1], 0)
        S(e, i) == display_buffer_set(display_buffer_set(e, 2 * i, P(i)[1]),
                                      2 * i + 1, P(i)[2])
    IN  S(S(S(Begin(d, "time"), 0), 1), 2)

display_no_signal(d, wi) ==
    display_buffer_set(display_clear(Begin(d, "nosignal")), wi, PointCode)

next_waitIndicator(wi) == IF wi + 1 = kNumDigits THEN 0 ELSE wi + 1

\* mutant: the buffer is not cleared before the error code is put in
display_error_code_NoClear(d, code) ==
    display_buffer_set(display_buffer_set(Begin(d, "error"), 0, ErrorCode), 1, code)

display_error_code(d, code) ==
    display_buffer_set(
        display_buffer_set(display_clear(Begin(d, "error")), 0, ErrorCode), 1, code)

display_timezone(d, tz) ==
    LET c     == display_clear(Begin(d, "timezone"))
        e     == IF tz < 0 THEN display_buffer_set(c, 1, DashCode)
                           ELSE display_buffer_set(c, 1, PlusCode)
        value == IF tz < 0 THEN U8(tz * (-1)) ELSE U8(tz)
        p     == TensOnes(value, 0)
    IN  display_buffer_set(display_buffer_set(e, 2, p[1]), 3, p[2])

(* display_buffer_send: the six digit registers take the buffer *)
display_buffer_send(d) ==
    /\ digitRegs' = [i \in 1..kNumDigits |-> d.buf[i]]
    /\ display_buf' = d.buf
    /\ bufKind' = d.kind
    /\ bufStamp' = [k \in 1..kNumDigits |-> 0]
    /\ sentFrame' = d.buf
    /\ sentStamp' = d.stamp
    /\ sends' = sends + 1
    /\ sentKinds' = Append(sentKinds, d.kind)

(* the buffer is composed and kept for later *)
KeepDisplay(d) ==
    /\ display_buf' = d.buf
    /\ bufKind' = d.kind
    /\ bufStamp' = d.stamp
    /\ UNCHANGED <<digitRegs, sentFrame, sentStamp, sends, sentKinds>>

----------------------------------------------------------------------------
(* main.c: display_adjust_brightness *)

brightnessTable == <<30, 40, 50, 65, 80, 95, 110, 125, 140, 155, 170, 185,
                     200, 215, 230>>
AverageLen == 16

RECURSIVE ScanTable(_, _)
ScanTable(n, average) ==
    IF n < Len(brightnessTable) /\ brightnessTable[n + 1] < average
    THEN ScanTable(n + 1, average) ELSE n

\* mutant: the oldest reading is not taken off the running total
display_adjust_brightness_KeepOldest(b, rd) ==
    LET total == (b.runningTotal + rd) % 65536
        c == [averageBuffer |-> [b.averageBuffer EXCEPT ![b.writeIndex + 1] = rd],
              writeIndex    |-> (b.writeIndex + 1) % AverageLen,
              runningTotal  |-> total]
    IN  [b |-> c, intensity |-> ScanTable(0, U8(total \div AverageLen))]

display_adjust_brightness(b, rd) ==
    LET total == (b.runningTotal - b.averageBuffer[b.writeIndex + 1] + rd) % 65536
        c == [averageBuffer |-> [b.averageBuffer EXCEPT ![b.writeIndex + 1] = rd],
              writeIndex    |-> (b.writeIndex + 1) % AverageLen,
              runningTotal  |-> total]
    IN  [b |-> c, intensity |-> ScanTable(0, U8(total \div AverageLen))]

----------------------------------------------------------------------------
(* main.c: the loop of main *)

buttonThreshold == 8
DebounceReads   == 20
AdcValues == {0, 200}      \* button held down; ambient light

(* Top of the loop: gps_read_time is called *)
LoopTop ==
    /\ pc = "loop"
    /\ iter < iterCap
    /\ iter' = iter + 1
    /\ GpsReadTimeEnter
    /\ pc' = "decode"
    /\ sends' = 0
    /\ sentKinds' = <<>>
    /\ eepromWrites' = 0
    /\ seqIncs' = 0
    /\ UNCHANGED <<input, idx, gpsTime, cfgVars, pinVars, lightVars>>
    /\ UNCHANGED <<timezoneOffset, eeprom, reading, numReads, oldTimezone, increments,
                   held>>
    /\ UNCHANGED <<display_buf, bufStamp, waitIndicator, displayPending, digitRegs,
                   bufKind, sentFrame, sentStamp>>

(* The combined light sensor and button input, read unless the status is  *)
(* Success                                                                 *)
SampleAnalog ==
    /\ pc = "returned"
    /\ status # kGPS_Success
    /\ \E adc \in AdcValues :
         /\ numReads' = 0
         /\ IF adc < buttonThreshold
            THEN /\ reading' = adc
                 /\ oldTimezone' = timezoneOffset
                 /\ pc' = "debounce"
                 /\ UNCHANGED lightVars
            ELSE /\ LET r == display_adjust_brightness(bright, adc)
                    IN  bright' = r.b /\ intensity' = r.intensity
                 /\ lightSeen' = Append(lightSeen, adc)
                 /\ reading' = 0        \* the block's locals end with it
                 /\ pc' = "switch"
                 /\ UNCHANGED oldTimezone
    /\ UNCHANGED <<decVars, cfgVars, pinVars, dispVars, iter>>
    /\ UNCHANGED <<timezoneOffset, eeprom, eepromWrites, increments, held, seqIncs>>

SkipAnalog ==
    /\ pc = "returned"
    /\ status = kGPS_Success
    /\ pc' = "switch"
    /\ UNCHANGED <<decVars, cfgVars, tzVars, pinVars, dispVars, lightVars, iter>>

\* mutant: the window is ten passes long
DebounceHeld_ShortWindow ==
    /\ pc = "debounce"
    /\ \E adc \in AdcValues :
         /\ adc < buttonThreshold
         /\ IF U8(numReads + 1) <= 10
            THEN /\ numReads' = U8(numReads + 1)
                 /\ UNCHANGED <<timezoneOffset, increments, seqIncs, dispVars>>
            ELSE /\ increments < pressCap
                 /\ numReads' = 0
                 /\ timezoneOffset' = increment_timezone(timezoneOffset)
                 /\ increments' = increments + 1
                 /\ seqIncs' = seqIncs + 1
                 /\ display_buffer_send(
                        display_timezone(Display, increment_timezone(timezoneOffset)))
                 /\ UNCHANGED <<waitIndicator, displayPending>>
    /\ held' = held + 1
    /\ pc' = "debounce"
    /\ UNCHANGED <<decVars, cfgVars, pinVars, lightVars, iter>>
    /\ UNCHANGED <<eeprom, eepromWrites, reading, oldTimezone>>

(* One pass of the debounce loop with the button still held *)
DebounceHeld ==
    /\ pc = "debounce"
    /\ \E adc \in AdcValues :
         /\ adc < buttonThreshold
         /\ IF U8(numReads + 1) <= DebounceReads
            THEN /\ numReads' = U8(numReads + 1)
                 /\ UNCHANGED <<timezoneOffset, increments, seqIncs, dispVars>>
            ELSE /\ increments < pressCap
                 /\ numReads' = 0
                 /\ timezoneOffset' = increment_timezone(timezoneOffset)
                 /\ increments' = increments + 1
                 /\ seqIncs' = seqIncs + 1
                 /\ display_buffer_send(
                        display_timezone(Display, increment_timezone(timezoneOffset)))
                 /\ UNCHANGED <<waitIndicator, displayPending>>
    /\ held' = held + 1
    /\ pc' = "debounce"
    /\ UNCHANGED <<decVars, cfgVars, pinVars, lightVars, iter>>
    /\ UNCHANGED <<eeprom, eepromWrites, reading, oldTimezone>>

(* The button is released: the loop ends, a changed timezone is persisted *)
DebounceReleased ==
    /\ pc = "debounce"
    /\ \E adc \in AdcValues : adc >= buttonThreshold
    /\ IF oldTimezone # timezoneOffset
       THEN eeprom' = U8(timezoneOffset) /\ eepromWrites' = eepromWrites + 1
       ELSE UNCHANGED <<eeprom, eepromWrites>>
    /\ reading' = 0           \* the block's locals end with it
    /\ numReads' = 0
    /\ oldTimezone' = 0
    /\ held' = 0
    /\ pc' = "switch"
    /\ UNCHANGED <<decVars, cfgVars, pinVars, dispVars, lightVars, iter>>
    /\ UNCHANGED <<timezoneOffset, increments, seqIncs>>

(* case kGPS_Success, up to the busy wait of wait_for_timepulse: the time  *)
(* is adjusted and composed, LOAD becomes an input and PCIF is cleared.    *)
HandleSuccess ==
    /\ pc = "switch"
    /\ status = kGPS_Success
    /\ LET now == increment_time(apply_timezone_offset(gpsTime, timezoneOffset))
       IN  /\ gpsTime' = now
           /\ KeepDisplay(display_buffer_update(Display, now))
    /\ pcif' = 0
    /\ firstEvent' = "none"
    /\ pinLoad' \in {0, 1}      \* low if the timepulse is active right now
    /\ pinRx' \in {0, 1}
    /\ pc' = "wait"
    /\ UNCHANGED <<input, idx, frame, status, reads, calls, startIdx, prevStatus,
                   oobWrite, cfgVars, tzVars, lightVars, iter, tpResult,
                   waitIndicator, displayPending>>

(* The lines change while the controller waits *)
TimepulseEdge ==
    /\ pc = "wait"
    /\ pinLoad' = 1 - pinLoad
    /\ pcif' = 1
    /\ firstEvent' = IF firstEvent # "none" THEN firstEvent
                     ELSE IF pinLoad = 1 THEN "timepulse" ELSE "timepulse_end"
    /\ UNCHANGED <<decVars, cfgVars, tzVars, dispVars, lightVars, pc, iter,
                   pinRx, tpResult>>

SerialEdge ==
    /\ pc = "wait"
    /\ pinRx' = 1 - pinRx
    /\ pcif' = 1
    /\ firstEvent' = IF firstEvent # "none" THEN firstEvent ELSE "serial"
    /\ UNCHANGED <<decVars, cfgVars, tzVars, dispVars, lightVars, pc, iter,
                   pinLoad, tpResult>>

\* mutant: the frame is sent whatever wait_for_timepulse returns
WaitReturn_AlwaysSend ==
    /\ pc = "wait"
    /\ pcif = 1
    /\ tpResult' = (pinLoad = 0)
    /\ displayPending' = TRUE
    /\ display_buffer_send(Display)
    /\ UNCHANGED waitIndicator
    /\ pc' = "loop"
    /\ UNCHANGED <<decVars, cfgVars, tzVars, lightVars, iter, pinLoad, pinRx, pcif,
                   firstEvent>>

(* PCIF is set: wait_for_timepulse returns whether LOAD is low, and the    *)
(* frame is sent only if it is.                                            *)
WaitReturn ==
    /\ pc = "wait"
    /\ pcif = 1
    /\ tpResult' = (pinLoad = 0)
    /\ IF pinLoad = 0
       THEN /\ displayPending' = TRUE
            /\ display_buffer_send(Display)
            /\ UNCHANGED waitIndicator
       ELSE UNCHANGED dispVars
    /\ pc' = "loop"
    /\ UNCHANGED <<decVars, cfgVars, tzVars, lightVars, iter, pinLoad, pinRx, pcif,
                   firstEvent>>

\* mutant: the buffer is sent as after the other statuses
HandleNoMatch_Sends ==
    /\ pc = "switch"
    /\ status = kGPS_NoMatch
    /\ display_buffer_send(Display)
    /\ pc' = "loop"
    /\ UNCHANGED <<decVars, cfgVars, tzVars, pinVars, lightVars, iter,
                   waitIndicator, displayPending>>

HandleNoMatch ==
    /\ pc = "switch"
    /\ status = kGPS_NoMatch
    /\ pc' = "loop"
    /\ UNCHANGED <<decVars, cfgVars, tzVars, pinVars, dispVars, lightVars, iter>>

HandleNoSignal ==
    /\ pc = "switch"
    /\ status = kGPS_NoSignal
    /\ display_buffer_send(display_no_signal(Display, waitIndicator))
    /\ waitIndicator' = next_waitIndicator(waitIndicator)
    /\ pc' = "loop"
    /\ UNCHANGED <<decVars, cfgVars, tzVars, pinVars, lightVars, iter, displayPending>>

\* mutant: the error is shown and the controller stops
HandleInvalidChecksum_Halt ==
    /\ pc = "switch"
    /\ status = kGPS_InvalidChecksum
    /\ display_buffer_send(display_error_code(Display, 1))
    /\ pc' = "halt"
    /\ UNCHANGED <<decVars, cfgVars, tzVars, pinVars, lightVars, iter,
                   waitIndicator, displayPending>>

HandleInvalidChecksum ==
    /\ pc = "switch"
    /\ status = kGPS_InvalidChecksum
    /\ display_buffer_send(display_error_code(Display, 1))
    /\ pc' = "loop"
    /\ UNCHANGED <<decVars, cfgVars, tzVars, pinVars, lightVars, iter,
                   waitIndicator, displayPending>>

HandleBadFormat ==
    /\ pc = "switch"
    /\ status = kGPS_BadFormat
    /\ display_buffer_send(display_error_code(Display, 2))
    /\ pc' = "loop"
    /\ UNCHANGED <<decVars, cfgVars, tzVars, pinVars, lightVars, iter,
                   waitIndicator, displayPending>>

----------------------------------------------------------------------------
(* The clock as a whole. The serial line delivers a few short lines and   *)
(* then stays low.                                                         *)

\* "$GPRMC,235959*hh", "$GPRMC,081836.00,A*hh", "$GPRMC,,V*hh" (no fix yet),
\* "$GPRMC,081836*00" (wrong checksum), "$GPGSV,3*74" (another type),
\* "$GPRMC,0818369934*hh" (two digit pairs too many)
LineRollover == Sentence(TsBody(Clock(<<23, 59, 59>>), <<>>)) \o CRLF
LineTime     == Sentence(TsBody(Clock(<<8, 18, 36>>), <<46, 48, 48, 44, 65>>)) \o CRLF
LineNoFix    == Sentence(TsBody(<<>>, <<44, 86>>)) \o CRLF
LineBadSum   == <<Dollar>> \o TsBody(Clock(<<8, 18, 36>>), <<>>)
                \o <<Star, 48, 48>> \o CRLF
LineOther    == <<Dollar, 71, 80, 71, 83, 86, 44, 51, 42, 55, 52>> \o CRLF
LineTooLong  == Sentence(TsBody(Clock(<<8, 18, 36>>) \o <<57, 57, 51, 52>>, <<>>))
                \o CRLF
Lines == {LineRollover, LineTime, LineNoFix, LineBadSum, LineOther, LineTooLong}

MainInputs ==
    {<<>>} \cup Lines
    \cup {a \o b : a \in {LineRollover, LineTooLong},
                   b \in {LineTime, LineNoFix, LineBadSum}}

StoredBytes == {255, 13, 244}     \* erased EEPROM, +13, -12

(* The controller after restore_timezone, about to enter its loop *)
InitClock(inputs, dates, layouts, storeds, iters, presses) ==
    /\ input \in inputs
    /\ gen = Gen("clock", NoTime, 0, NoTime, 0)
    /\ withDate \in dates
    /\ layout \in layouts
    /\ iterCap = iters
    /\ pressCap = presses
    /\ gpsTime = Rep(0, NumFields(withDate))
    /\ pc = "loop"
    /\ InitDecoder
    /\ \E stored \in storeds :
         /\ eeprom = stored
         /\ timezoneOffset = restore_timezone(stored)
    /\ display_buf = Rep(0, kNumDigits)
    /\ waitIndicator = 0
    /\ eepromWrites = 0
    /\ reading = 0
    /\ numReads = 0
    /\ oldTimezone = 0
    /\ increments = 0
    /\ held = 0
    /\ seqIncs = 0
    /\ pinLoad = 1
    /\ pinRx = 1
    /\ pcif = 0
    /\ firstEvent = "none"
    /\ tpResult = FALSE
    /\ displayPending = FALSE
    /\ digitRegs = Rep(0, kNumDigits)
    /\ intensity = 0
    /\ bright = [averageBuffer |-> Rep(0, AverageLen), writeIndex |-> 0,
                 runningTotal |-> 0]
    /\ lightSeen = <<>>
    /\ rx = RxIdle
    /\ bufStamp = Rep(0, kNumDigits)
    /\ bufKind = "none"
    /\ sends = 0
    /\ sentKinds = <<>>
    /\ sentFrame = <<>>
    /\ sentStamp = <<>>
    /\ iter = 0

InitMain == InitClock(MainInputs, BOOLEAN, Layouts, StoredBytes, MaxIter, MaxPresses)

NextMain ==
    \/ LoopTop
    \/ SearchStart
    \/ SkipSentence
    \/ ReadType
    \/ ReadFields
    \/ ChecksumVerify
    \/ SampleAnalog
    \/ SkipAnalog
    \/ DebounceHeld
    \/ DebounceReleased
    \/ HandleSuccess
    \/ TimepulseEdge
    \/ SerialEdge
    \/ WaitReturn
    \/ HandleNoMatch
    \/ HandleNoSignal
    \/ HandleInvalidChecksum
    \/ HandleBadFormat

SpecMain == InitMain /\ [][NextMain]_vars

----------------------------------------------------------------------------
(* The button. The GPS unit is unplugged (the serial line reads as NUL    *)
(* bytes), so every iteration ends in BadFormat and samples the button.   *)

MaxButtonIter    == 1      \* iterations of the main loop followed
MaxButtonPresses == 27     \* timezone increments followed

TimezoneMin == -12
TimezoneMax == 13
Timezones == TimezoneMin..TimezoneMax

\* every byte that reads as a timezone, and some that do not
ButtonStored == {U8(t) : t \in Timezones} \cup {14, 127, 128, 243}

InitButton ==
    InitClock({<<>>}, {FALSE}, {LayoutNone}, ButtonStored,
              MaxButtonIter, MaxButtonPresses)

NextButton ==
    \/ LoopTop
    \/ SearchStart
    \/ SampleAnalog
    \/ DebounceHeld
    \/ DebounceReleased
    \/ HandleBadFormat

SpecButton == InitButton /\ [][NextButton]_vars

----------------------------------------------------------------------------
(* What the current gps_read_time call is given to read: D(k) is the k-th *)
(* byte the source delivers to it.                                        *)

D(k) == uart_read_byte(input, startIdx + k - 1)

Window == 1..MaxSentence

(* First position from `from` on, inside the window, that holds c; 0 if none *)
FirstAt(c, from) ==
    IF \E k \in Window : k >= from /\ D(k) = c
    THEN CHOOSE k \in Window :
            /\ k >= from /\ D(k) = c
            /\ \A j \in Window : (j >= from /\ D(j) = c) => k <= j
    ELSE 0

XorRange(a, b) == XorSeq([k \in 1..(b - a + 1) |-> D(a + k - 1)])

(* The byte two characters encode as an upper-case hex pair; -1 if they   *)
(* are not two hex digits                                                 *)
IsHexChar(c) == (c >= Chr0 /\ c <= Chr9) \/ (c >= ChrA /\ c <= ChrF)
HexValue(c1, c2) ==
    IF IsHexChar(c1) /\ IsHexChar(c2)
    THEN 16 * (IF c1 <= Chr9 THEN c1 - Chr0 ELSE c1 - 55)
         + (IF c2 <= Chr9 THEN c2 - Chr0 ELSE c2 - 55)
    ELSE -1

Returned == pc = "returned"
Hms(t) == SubSeq(t, 1, 3)
TimeIs(t) == IF withDate THEN gpsTime = t ELSE gpsTime = Hms(t)

----------------------------------------------------------------------------
(* C1: whatever the stream holds, a gps_read_time call reads at most 79   *)
(* bytes: while it runs it has read fewer than 79 and its loop counter is *)
(* what is left of the budget, and once the budget is used up it has      *)
(* returned a status.                                                     *)
C1_TerminatesInBudget ==
    /\ reads <= MaxSentence
    /\ pc = "decode" => /\ reads < MaxSentence
                        /\ frame.i = MaxSentence - reads
                        /\ status = NoStatus
    /\ Returned => status # NoStatus

C1_Witness == Returned /\ reads = MaxSentence /\ gen.kind = "junk"

(* C2: a well-formed GPRMC sentence read from the start of a call gives   *)
(* Success at its second checksum character, with hour, minute, second    *)
(* (and day, month, year with date capture) equal to the digit pairs.     *)
C2_WellFormedDecodes ==
    (gen.kind \in {"wellformed", "pair"} /\ calls = 1 /\ Returned) =>
        /\ status = kGPS_Success
        /\ TimeIs(gen.t1)
        /\ idx = gen.n1
        /\ reads = gen.n1

(* a sentence with a fraction and empty position fields, date captured *)
C2_Witness ==
    /\ gen.kind = "wellformed" /\ calls = 1 /\ Returned
    /\ withDate /\ gpsTime = <<23, 59, 36, 4, 2, 19>>
    /\ input[14] = Dot /\ input[15] = 55
    /\ SubSeq(input, gen.n1 - 6, gen.n1 - 3) = TailEmpty

(* C3: a call that reached the '*' and returned a checksum   *)
(* verdict read exactly two characters after the '*'; it returns Success  *)
(* or NoSignal only if they encode the XOR of the bytes between '$' and   *)
(* '*', and InvalidChecksum whenever they do not.                         *)
C3_ChecksumDecides ==
    (Returned /\ frame.state = kChecksumVerify /\ status # kGPS_BadFormat) =>
        LET d == FirstAt(Dollar, 1)
            q == FirstAt(Star, d + 6)
            x == XorRange(d + 1, q - 1)
            e == HexValue(D(q + 1), D(q + 2))
        IN  /\ status \in {kGPS_Success, kGPS_NoSignal} => (reads = q + 2 /\ e = x)
            /\ e # x => status = kGPS_InvalidChecksum

(* A verdict of Success was given on the first character after the '*' *)
OneCharVerdict ==
    /\ Returned /\ gen.kind = "timestamp" /\ calls = 1
    /\ status = kGPS_Success
    /\ reads = FirstAt(Star, 1) + 1

(* C4: any single bit flipped between '$' and '*' of a well-formed       *)
(* sentence makes the call return InvalidChecksum.                        *)
C4_AnyFlipInvalid ==
    (gen.kind = "flip" /\ calls = 1 /\ Returned) => status = kGPS_InvalidChecksum

(* What the decoder does with a flipped bit: in the five type characters  *)
(* it gives NoMatch at the end of the line; in a byte of the fields it    *)
(* gives InvalidChecksum as long as the flip neither makes nor unmakes a  *)
(* ',', '*' or the timestamp's '.', which change how many characters are  *)
(* collected or where the sentence ends.                                  *)
FlipInType == gen.flip[1] <= 6
FlipKeepsShape ==
    /\ gen.flip[1] > 6
    /\ gen.flip[2] # Comma
    /\ gen.flip[3] \notin {Comma, Star}
    /\ ~(gen.flip[1] = 14 /\ gen.flip[2] = Dot)
FlipDetected ==
    (gen.kind = "flip" /\ calls = 1 /\ Returned) =>
        /\ FlipInType => status = kGPS_NoMatch /\ idx = gen.n1 + 2
        /\ FlipKeepsShape => status = kGPS_InvalidChecksum /\ idx = gen.n1

(* A sentence with one bit flipped has been taken for a good one *)
FlipAccepted ==
    /\ gen.kind = "flip" /\ calls = 1 /\ Returned
    /\ status \in {kGPS_Success, kGPS_NoSignal}

(* C5 (as claimed): after '$' and a type other than GPRMC the call        *)
(* returns NoMatch on the next '\n' of the stream if that comes within    *)
(* the budget, never a checksum verdict, and never writes the output.     *)
OtherTypeStream ==
    /\ calls = 1
    /\ Len(input) >= 6
    /\ input[1] = Dollar
    /\ SubSeq(input, 2, 6) # GPRMC
NoOutputWritten == frame.outputIndex = 0 /\ gpsTime = Rep(0, NumFields(withDate))
C5_NoMatchAtNextLF ==
    OtherTypeStream =>
        /\ NoOutputWritten
        /\ Returned =>
             /\ status \in {kGPS_NoMatch, kGPS_BadFormat}
             /\ FirstAt(LF, 2) # 0 => (status = kGPS_NoMatch /\ reads = FirstAt(LF, 2))

(* C5 (amended): the '\n' on which NoMatch is returned is the first one   *)
(* after the first type character that differs from GPRMC.                *)
FirstMismatch == CHOOSE j \in 1..5 :
                    /\ input[j + 1] # GPRMC[j]
                    /\ \A k \in 1..(j - 1) : input[k + 1] = GPRMC[k]
C5_NoMatchAfterMismatch ==
    OtherTypeStream =>
        /\ NoOutputWritten
        /\ Returned =>
             LET q == FirstAt(LF, FirstMismatch + 2)
             IN  /\ status \in {kGPS_NoMatch, kGPS_BadFormat}
                 /\ q # 0 => (status = kGPS_NoMatch /\ reads = q)
                 /\ q = 0 => (status = kGPS_BadFormat /\ reads = MaxSentence)

\* "$GPRMA,081836,A*00": digits in field 1, a '*' and a checksum are all skipped
C5_Witness ==
    /\ OtherTypeStream /\ Returned /\ status = kGPS_NoMatch
    /\ SubSeq(input, 2, 6) = <<71, 80, 82, 77, 65>>
    /\ input[8] = 48 /\ reads = 20

(* C6: over two well-formed sentences in a row every call starts from the *)
(* initial parser state, the call that reads the first sentence returns   *)
(* Success with its time, and the call that reads the second returns      *)
(* Success with the second's time.                                        *)
C6_PairIndependent ==
    gen.kind = "pair" =>
        /\ (pc = "decode" /\ reads = 0) => frame = InitFrame
        /\ (Returned /\ idx <= gen.n1) =>
              (calls = 1 /\ idx = gen.n1 /\ status = kGPS_Success /\ TimeIs(gen.t1))
        /\ (Returned /\ idx > gen.n1 + 2) =>
              \/ /\ idx = gen.n1 + 2 + gen.n2
                 /\ startIdx = gen.n1 + 2
                 /\ status = kGPS_Success /\ TimeIs(gen.t2)
              \/ startIdx = gen.n1 + 2 + gen.n2

C6_Witness ==
    /\ gen.kind = "pair" /\ Returned /\ idx = gen.n1 + 2 + gen.n2
    /\ status = kGPS_Success /\ gen.t1 # gen.t2 /\ TimeIs(gen.t2)

(* C7 (as claimed): "$GPRMC", fields without '*', CR LF: BadFormat,       *)
(* whatever follows the line end.                                         *)
UntermStream == gen.kind = "unterminated" /\ calls = 1
NoFraming == \A k \in Window : D(k) \notin {Dollar, Star, LF}
C8_BadFormatAtBudget ==
    /\ (Returned /\ status = kGPS_BadFormat) => reads = MaxSentence
    /\ (Returned /\ NoFraming) =>
          /\ status = kGPS_BadFormat
          /\ reads = MaxSentence
          /\ idx = IF Len(input) - startIdx < MaxSentence
                   THEN Len(input) ELSE startIdx + MaxSentence

C8_Witness ==
    /\ Returned /\ NoFraming /\ status = kGPS_BadFormat
    /\ Len(input) = MaxSentence + 2 /\ idx = MaxSentence /\ input[MaxSentence + 2] = LF

----------------------------------------------------------------------------
(* The main loop and the display *)

Range(q) == {q[k] : k \in 1..Len(q)}

AllFresh(stamps) == \A k \in 1..Len(stamps) : stamps[k] = 2

(* The six digits display_buffer_update makes of a time *)
TimeFrame(now) ==
    <<TensOnes(now[1], 0)[1], TensOnes(now[1], 0)[2],
      TensOnes(now[2], 0)[1], TensOnes(now[2], 0)[2],
      TensOnes(now[3], 0)[1], TensOnes(now[3], 0)[2]>>

(* C9: in an iteration whose status is Success the time frame is composed  *)
(* in full before the wait for a pin change; once the wait is over the     *)
(* frame has been sent exactly if wait_for_timepulse returned true, and    *)
(* nothing has been sent in the iteration if it returned false; in an      *)
(* iteration with any other status no time frame is sent.                  *)
C9_TimeFrameOnTimepulse ==
    /\ pc = "wait" =>
          /\ status = kGPS_Success
          /\ bufKind = "time"
          /\ AllFresh(bufStamp)
          /\ display_buf = TimeFrame(gpsTime)
          /\ sends = 0
    /\ (pc = "loop" /\ status = kGPS_Success) =>
          /\ pcif = 1
          /\ firstEvent # "none"
          /\ IF tpResult
             THEN /\ sends = 1
                  /\ sentKinds = <<"time">>
                  /\ sentFrame = TimeFrame(gpsTime)
                  /\ digitRegs = sentFrame
             ELSE sends = 0
    /\ status # kGPS_Success => "time" \notin Range(sentKinds)

(* A decoded time went to the display on the timepulse *)
C9_Witness ==
    /\ pc = "loop"
    /\ status = kGPS_Success
    /\ firstEvent = "timepulse"
    /\ tpResult
    /\ sends = 1
    /\ timezoneOffset = -1
    /\ sentFrame = <<2, 3, 0, 0, 0, 0>>      \* 23:59:59, an hour back, a second on

(* C10: whenever the buffer has been sent, all six of its entries had been *)
(* assigned by one composition since the send before, and the registers    *)
(* hold exactly that composition.                                          *)
C10_SendsWholeFrames ==
    sentStamp # <<>> =>
        /\ Len(sentStamp) = kNumDigits
        /\ AllFresh(sentStamp)
        /\ digitRegs = sentFrame

(* The no-signal frame is sent after a time frame was composed and its     *)
(* timepulse wait given up for serial activity                             *)
C10_Witness ==
    /\ pc = "loop"
    /\ iter = 3
    /\ firstEvent = "serial"
    /\ ~tpResult
    /\ sentKinds = <<"nosignal">>
    /\ AllFresh(sentStamp)
    /\ sentFrame[1] = PointCode

----------------------------------------------------------------------------
(* The button and the timezone *)

DebounceWindow == DebounceReads + 1     \* passes of the loop per increment

(* C11: while the button is held, the increments made are the full        *)
(* windows of consecutive readings below the threshold: none before 20    *)
(* readings, one more for each further window of the same length; a       *)
(* reading at or above the threshold ends the sequence, and a press that  *)
(* ends before its first window is over changes nothing.                  *)
C11_DebounceWindows ==
    /\ pc = "debounce" =>
          /\ seqIncs = held \div DebounceWindow
          /\ numReads = held % DebounceWindow
          /\ seqIncs >= 1 => held >= DebounceReads
          /\ held < DebounceWindow =>
                (timezoneOffset = oldTimezone /\ sends = 0)
          /\ sends = seqIncs
    /\ pc # "debounce" => (held = 0 /\ numReads = 0)

(* the second increment of one press, on the 42nd pass *)
C11_Witness ==
    /\ pc = "debounce"
    /\ held = 2 * DebounceWindow
    /\ seqIncs = 2
    /\ numReads = 0

(* The offset n increments after t *)
TzAfter(t, n) == ((t - TimezoneMin + n) % 26) + TimezoneMin

(* C12: each increment_timezone adds one and wraps from 13 to -12; from   *)
(* any offset in -12..13, 26 increments come back to it, and no fewer do. *)
C12_IncrementWraps ==
    pc = "debounce" =>
        /\ oldTimezone \in Timezones
        /\ timezoneOffset = TzAfter(oldTimezone, seqIncs)
        /\ (seqIncs > 0 /\ seqIncs < 26) => timezoneOffset # oldTimezone
        /\ seqIncs = 26 => timezoneOffset = oldTimezone
        /\ \A t \in Timezones :
              increment_timezone(t) = IF t = TimezoneMax THEN TimezoneMin ELSE t + 1

(* 26 increments from 13 are back at 13 *)
C12_Witness ==
    /\ pc = "debounce"
    /\ oldTimezone = TimezoneMax
    /\ seqIncs = 26
    /\ timezoneOffset = TimezoneMax

----------------------------------------------------------------------------
(* The time shown. The serial line delivers one sentence with a time, the *)
(* stored byte is any timezone.                                           *)

TimeHours   == 0..23
TimeMinutes == {0, 37, 59}
TimeSeconds == {0, 9, 58, 59}

\* "$GPRMC,hhmmss*cc"
TimeInputs ==
    {Sentence(TsBody(Clock(<<h, m, sec>>), <<>>)) \o CRLF :
        h \in TimeHours, m \in TimeMinutes, sec \in TimeSeconds}

InitTime ==
    InitClock(TimeInputs, {FALSE}, {LayoutNone}, {U8(t) : t \in Timezones}, 1, 0)

NextTime ==
    \/ LoopTop
    \/ SearchStart
    \/ ReadType
    \/ ReadFields
    \/ ChecksumVerify
    \/ SkipAnalog
    \/ HandleSuccess
    \/ TimepulseEdge
    \/ SerialEdge
    \/ WaitReturn

SpecTime == InitTime /\ [][NextTime]_vars

(* The number two characters of the input spell, and the time of day the  *)
(* sentence carries                                                       *)
Num(k) == (input[k] - Chr0) * 10 + (input[k + 1] - Chr0)
SentHour   == Num(8)
SentMinute == Num(10)
SentSecond == Num(12)

(* Seconds since midnight of the time to show: the sentence's time moved  *)
(* by the offset in hours, one second later                               *)
ShownSeconds ==
    (((SentHour + timezoneOffset) % 24) * 3600 + SentMinute * 60 + SentSecond + 1)
        % 86400

Digits(v) == <<v \div 10, v % 10>>

(* C15: the frame composed on Success is the tens and ones of the hour,   *)
(* minute and second of the decoded time, moved by the offset modulo 24   *)
(* hours and advanced by one second modulo a day; the hour is in 0..23,   *)
(* minute and second in 0..59; repeated subtraction gives div and mod 10. *)
C15_ShownTime ==
    /\ (pc = "wait" \/ (pc = "loop" /\ status = kGPS_Success)) =>
          /\ display_buf = Digits(ShownSeconds \div 3600)
                           \o Digits((ShownSeconds \div 60) % 60)
                           \o Digits(ShownSeconds % 60)
          /\ gpsTime[1] \in 0..23
          /\ gpsTime[2] \in 0..59
          /\ gpsTime[3] \in 0..59
          /\ display_buf = TimeFrame(gpsTime)
    /\ iter = 0 => \A v \in 0..99 : TensOnes(v, 0) = Digits(v)

(* 23:59:59 at offset 13 is shown as 13:00:00 *)
C15_Witness ==
    /\ pc = "wait"
    /\ SentHour = 23 /\ SentMinute = 59 /\ SentSecond = 59
    /\ timezoneOffset = 13
    /\ display_buf = <<1, 3, 0, 0, 0, 0>>

----------------------------------------------------------------------------
(* Statuses that show nothing *)

(* C16: in an iteration whose status is NoMatch the display buffer is not *)
(* changed and no digit register is written.                              *)
C16_NoMatchNoDisplay ==
    [][(status = kGPS_NoMatch /\ status' = kGPS_NoMatch) =>
          UNCHANGED <<display_buf, digitRegs, sends>>]_vars

(* C16, with the button: in an iteration whose status is NoMatch the      *)
(* buffer and the digit registers change only when a debounce window is   *)
(* completed, to the frame of the new timezone; the switch on the status  *)
(* changes nothing of the display and goes back to the top of the loop.   *)
C16_NoMatchOnlyTimezone ==
    [][(status = kGPS_NoMatch /\ status' = kGPS_NoMatch) =>
          /\ \/ UNCHANGED <<display_buf, digitRegs, sends>>
             \/ /\ pc = "debounce"
                /\ numReads = DebounceReads
                /\ timezoneOffset' = increment_timezone(timezoneOffset)
                /\ display_buf' = display_timezone(Display, timezoneOffset').buf
                /\ digitRegs' = display_buf'
                /\ sends' = sends + 1
          /\ pc = "switch" => (pc' = "loop" /\ UNCHANGED dispVars)]_vars

(* An iteration with NoMatch is over and the timezone was shown in it *)
C16_Witness ==
    /\ pc = "loop"
    /\ status = kGPS_NoMatch
    /\ sentKinds = <<"timezone">>

----------------------------------------------------------------------------
(* The loop goes on. Every step the controller can take by itself is      *)
(* taken in the end: the decoder gets its next byte, the button is let    *)
(* go of, and one of the two watched lines changes while the controller   *)
(* waits for the timepulse.                                               *)

MaxLiveIter == 3      \* iterations of the main loop followed

LiveInputs == {<<>>, LineRollover \o LineNoFix, LineBadSum, LineOther}

InitLive == InitClock(LiveInputs, {FALSE}, {LayoutNone}, {255}, MaxLiveIter, 1)

ControllerStep ==
    \/ LoopTop
    \/ SearchStart
    \/ SkipSentence
    \/ ReadType
    \/ ReadFields
    \/ ChecksumVerify
    \/ SampleAnalog
    \/ SkipAnalog
    \/ DebounceReleased
    \/ HandleSuccess
    \/ WaitReturn
    \/ HandleNoMatch
    \/ HandleNoSignal
    \/ HandleInvalidChecksum
    \/ HandleBadFormat

PinChange == TimepulseEdge \/ SerialEdge

SpecLive ==
    /\ InitLive
    /\ [][NextMain]_vars
    /\ WF_vars(ControllerStep)
    /\ WF_vars(PinChange)

Statuses == {kGPS_Success, kGPS_NoSignal, kGPS_NoMatch, kGPS_InvalidChecksum,
             kGPS_BadFormat}

----------------------------------------------------------------------------
(* What the decoder takes for a fix, for a checksum, and where it stores  *)

(* Characters of the timestamp field before its '.', in a stream that     *)
(* begins with "$GPRMC,"                                                  *)
TsEnd == CHOOSE k \in 8..(Len(input) + 1) :
            /\ k > Len(input) \/ input[k] \in {Comma, Dot, Star}
            /\ \A j \in 8..(k - 1) : input[j] \notin {Comma, Dot, Star}
TsPairsWritten == (TsEnd - 8) \div 2

(* C18: a call that found the checksum matching returns Success exactly   *)
(* if a digit pair of the timestamp field was written, NoSignal if none   *)
(* was; an empty timestamp field never gives Success.                     *)
C18_SuccessIffTimestamp ==
    (/\ gen.kind \in {"wellformed", "emptytime", "timestamp"}
     /\ calls = 1 /\ Returned
     /\ status \in {kGPS_Success, kGPS_NoSignal}) =>
        (status = kGPS_Success <=> TsPairsWritten >= 1)

(* Success for a sentence without a time: its date was taken for one *)
EmptyTimeSuccess ==
    /\ gen.kind = "emptytime" /\ calls = 1 /\ Returned
    /\ withDate
    /\ status = kGPS_Success
    /\ Hms(gpsTime) = <<4, 2, 19>>

(* C19: Success and NoSignal are returned only if both characters after   *)
(* the '*' are of '0'..'9', 'A'..'F'.                                     *)
C19_OnlyHexAccepted ==
    (/\ Returned /\ calls = 1
     /\ frame.state = kChecksumVerify
     /\ status \in {kGPS_Success, kGPS_NoSignal}) =>
        LET q == FirstAt(Star, 1)
        IN  IsHexChar(D(q + 1)) /\ IsHexChar(D(q + 2))

(* "*6" and the end of the line were taken for the checksum 0x60 *)
LenientChecksum ==
    /\ gen.kind = "hexpair" /\ calls = 1 /\ Returned
    /\ status = kGPS_Success
    /\ reads = FirstAt(Star, 1) + 2
    /\ D(reads) = CR

(* C20: every store of a converted pair goes to a byte of the GpsTime:    *)
(* the output index of a store is below the number of time fields, so     *)
(* after any number of stores the index is at most that number and no     *)
(* store fell behind the end.                                             *)
C20_WritesInside ==
    /\ frame.outputIndex <= NumFields(withDate)
    /\ ~oobWrite

(* The fourth pair of an eight-digit timestamp stored at index 3 of a     *)
(* three-byte GpsTime                                                     *)
StoreBehindEnd ==
    /\ gen.kind = "timestamp" /\ calls = 1
    /\ ~withDate
    /\ TsPairsWritten = 4
    /\ frame.outputIndex = 4
    /\ oobWrite
    /\ Len(gpsTime) = 3

(* C21: wait_for_timepulse returns true exactly if the first pin change   *)
(* after PCIF was cleared was the timepulse edge, and false exactly if it *)
(* was a change of the serial line.                                       *)
C21_FirstEventDecides ==
    (pc # "wait" /\ firstEvent # "none") =>
        /\ tpResult <=> firstEvent = "timepulse"
        /\ ~tpResult <=> firstEvent = "serial"

(* LOAD was low when PCIF was cleared, the only change was one of the     *)
(* serial line, and the wait returned true and the frame was sent         *)
SerialTakenForTimepulse ==
    /\ pc = "loop"
    /\ firstEvent = "serial"
    /\ pinLoad = 0
    /\ tpResult
    /\ displayPending

(* Position in the stream of its first '*'; 0 if it has none *)
InputStar ==
    IF \E k \in 1..Len(input) : input[k] = Star
    THEN CHOOSE k \in 1..Len(input) :
            input[k] = Star /\ \A j \in 1..(k - 1) : input[j] # Star
    ELSE 0

ChecksumVerdicts == {kGPS_Success, kGPS_NoSignal, kGPS_InvalidChecksum}

(* The stream begins with a sentence "$...*hh" followed by CR LF *)
SentenceThenCRLF ==
    /\ gen.kind \in {"wellformed", "pair", "timestamp", "emptytime", "hexpair"}
    /\ InputStar > 0
    /\ Len(input) >= InputStar + 4
    /\ input[InputStar + 3] = CR
    /\ input[InputStar + 4] = LF

(* C22: on a sentence followed by CR LF, the call that gives the verdict  *)
(* of the checksum returns on the second character after the '*', and     *)
(* the call after it reads exactly CR LF and returns NoMatch.             *)
C22_LineEndIsNextCall ==
    SentenceThenCRLF =>
        /\ (calls = 1 /\ Returned /\ status \in ChecksumVerdicts) =>
               reads = InputStar + 2
        /\ (calls = 2 /\ Returned /\ prevStatus \in ChecksumVerdicts) =>
               /\ startIdx = InputStar + 2
               /\ reads = 2
               /\ status = kGPS_NoMatch

(* The verdict came on the first character after the '*': the next call   *)
(* read the second one with the CR LF                                     *)
ChecksumLeftUnread ==
    /\ SentenceThenCRLF
    /\ gen.kind = "timestamp"
    /\ calls = 2 /\ Returned
    /\ prevStatus \in ChecksumVerdicts
    /\ startIdx = InputStar + 1
    /\ reads = 3
    /\ status = kGPS_NoMatch

----------------------------------------------------------------------------
(* The button pressed after a timestamp field of four pairs: the fourth   *)
(* is stored where the timezone lies.                                     *)

MaxZoneIter    == 3      \* iterations of the main loop followed
MaxZonePresses == 2      \* timezone increments followed

\* "$GPRMC,081836D0*17": the pair "D0" converts to 200
LineZone == Sentence(TsBody(Clock(<<8, 18, 36>>) \o <<68, 48>>, <<>>)) \o CRLF

InitZone ==
    InitClock({LineZone}, {FALSE}, {LayoutTzFirst}, {255, 13},
              MaxZoneIter, MaxZonePresses)

NextZone ==
    \/ LoopTop
    \/ SearchStart
    \/ ReadType
    \/ ReadFields
    \/ ChecksumVerify
    \/ SampleAnalog
    \/ SkipAnalog
    \/ DebounceHeld
    \/ DebounceReleased
    \/ HandleSuccess
    \/ TimepulseEdge
    \/ SerialEdge
    \/ WaitReturn
    \/ HandleNoMatch
    \/ HandleBadFormat

SpecZone == InitZone /\ [][NextZone]_vars

(* The frame display_timezone composes for the offset tz *)
Magnitude(tz) == IF tz < 0 THEN 0 - tz ELSE tz
TimezoneFrame(tz) ==
    <<BlankCode, IF tz >= 0 THEN PlusCode ELSE DashCode,
      Magnitude(tz) \div 10, Magnitude(tz) % 10, BlankCode, BlankCode>>

----------------------------------------------------------------------------
(* display_adjust_brightness called again and again, with a light level   *)
(* that changes between the calls                                         *)

MaxLightCalls   == 20      \* calls followed: the ring is filled and four entries replaced
MaxLightChanges == 1       \* changes of the light level followed

\* readings at and around the ends of brightnessTable; the button
\* threshold is the lowest reading display_adjust_brightness is given
LightValues == {8, 30, 31, 100, 230, 231, 255}

Changes(h) == Cardinality({k \in 1..(Len(h) - 1) : h[k] # h[k + 1]})

InitLight == InitClock({<<>>}, {FALSE}, {LayoutNone}, {255}, 0, 0)

(* The else branch of the analog block: one display_adjust_brightness call *)
AdjustBrightness ==
    /\ Len(lightSeen) < MaxLightCalls
    /\ \E rd \in LightValues :
         /\ rd >= buttonThreshold
         /\ Changes(Append(lightSeen, rd)) <= MaxLightChanges
         /\ LET r == display_adjust_brightness(bright, rd)
            IN  bright' = r.b /\ intensity' = r.intensity
         /\ lightSeen' = Append(lightSeen, rd)
    /\ UNCHANGED <<decVars, cfgVars, tzVars, pinVars, dispVars, pc, iter>>

NextLight == AdjustBrightness

SpecLight == InitLight /\ [][NextLight]_vars

RECURSIVE SumSeq(_)
SumSeq(h) == IF h = <<>> THEN 0 ELSE Head(h) + SumSeq(Tail(h))

(* The reading the ring holds in entry j (from 0) after the readings h:   *)
(* the latest one of the calls j+1, j+17, ...; 0 before the first of them *)
RingEntry(h, j) ==
    LET ks == {k \in 1..Len(h) : (k - 1) % AverageLen = j}
    IN  IF ks = {} THEN 0 ELSE h[CHOOSE k \in ks : \A l \in ks : l <= k]

LastReadings(h) ==
    IF Len(h) <= AverageLen THEN h ELSE SubSeq(h, Len(h) - AverageLen + 1, Len(h))

Average == bright.runningTotal \div AverageLen

(* Lowest index of brightnessTable whose value the average does not exceed *)
IntensityFor(average) ==
    IF \E i \in 0..14 : average <= brightnessTable[i + 1]
    THEN CHOOSE i \in 0..14 :
            /\ average <= brightnessTable[i + 1]
            /\ \A j \in 0..(i - 1) : average > brightnessTable[j + 1]
    ELSE 15

LightState ==
    /\ \A j \in 0..(AverageLen - 1) :
          bright.averageBuffer[j + 1] = RingEntry(lightSeen, j)
    /\ bright.writeIndex = Len(lightSeen) % AverageLen
    /\ bright.runningTotal = SumSeq(bright.averageBuffer)
    /\ bright.runningTotal = SumSeq(LastReadings(lightSeen))
    /\ intensity = IntensityFor(Average)
    /\ intensity \in 0..15

(* C24: after any readings the running total is the sum of the 16 ring    *)
(* entries, which are the last 16 readings (0 where none was written);    *)
(* a call replaces the oldest entry; the intensity is the lowest index of *)
(* the threshold table whose value floor(total / 16) does not exceed, 15  *)
(* if it exceeds all; the intensity is in 0..15 and does not go down when *)
(* the average goes up.                                                   *)
C24_RunningAverage ==
    /\ []LightState
    /\ [][/\ Len(lightSeen') = Len(lightSeen) + 1 =>
               \A j \in 0..(AverageLen - 1) :
                   j # bright.writeIndex =>
                       bright'.averageBuffer[j + 1] = bright.averageBuffer[j + 1]
          /\ Average' >= Average => intensity' >= intensity]_vars

(* The ring has been filled and its oldest entries replaced by brighter   *)
(* readings: the average lies between the two levels                      *)
C24_Witness ==
    /\ Len(lightSeen) = 20
    /\ SubSeq(lightSeen, 1, 17) = Rep(31, 17)
    /\ SubSeq(lightSeen, 18, 20) = Rep(231, 3)
    /\ bright.runningTotal = 13 * 31 + 3 * 231
    /\ bright.writeIndex = 4
    /\ intensity = 4

----------------------------------------------------------------------------
(* softuart.c: uart_read_byte receiving from a sender that keeps the bit  *)
(* rate: start bit, eight data bits from the least significant one, stop  *)
(* bit, then the line idle high until the next start bit.                 *)

MaxUartCalls == 2      \* uart_read_byte calls followed

UartBytes == {0, 1, 2, 4, 8, 16, 32, 64, 128, 255, 85, 170, 36, 10, 13, 127}

(* Level of the line t half bit periods after the start edge of byte b *)
LineLevel(b, t) ==
    LET n == t \div 2
    IN  IF n = 0 THEN 0 ELSE IF n <= 8 THEN Bit(b, n - 1) ELSE 1

(* Entry of uart_read_byte: data = 0, then the wait for the line to go low *)
UartCall ==
    /\ rx.pc = "idle"
    /\ Len(rx.out) < MaxUartCalls
    /\ rx' = [rx EXCEPT !.pc = "wait", !.data = 0, !.bit = 0, !.samples = <<>>]
    /\ UNCHANGED <<decVars, withDate, layout, gen, iterCap, pressCap, tzVars,
                   pinVars, dispVars, lightVars, pc, iter>>

(* The line goes low: the wait ends, the half bit delay is made and the   *)
(* bit counter set                                                        *)
UartStartBit ==
    /\ rx.pc = "wait"
    /\ \E b \in UartBytes :
         rx' = [rx EXCEPT !.pc = "shift", !.wire = Append(rx.wire, b),
                          !.t = 1, !.bit = 9]
    /\ UNCHANGED <<decVars, withDate, layout, gen, iterCap, pressCap, tzVars,
                   pinVars, dispVars, lightVars, pc, iter>>

\* mutant: the data is shifted to the left, the first sample ends highest
UartShift_MsbFirst ==
    /\ rx.pc = "shift"
    /\ LET bit   == rx.bit - 1
           t     == rx.t + 2
           level == LineLevel(rx.wire[Len(rx.wire)], t)
       IN  IF bit = 0
           THEN rx' = [rx EXCEPT !.pc = "idle", !.bit = bit, !.t = t,
                                 !.out = Append(rx.out, rx.data)]
           ELSE rx' = [rx EXCEPT !.bit = bit, !.t = t,
                                 !.data = U8(rx.data * 2) + level,
                                 !.samples = Append(rx.samples, <<t, level>>)]
    /\ UNCHANGED <<decVars, withDate, layout, gen, iterCap, pressCap, tzVars,
                   pinVars, dispVars, lightVars, pc, iter>>

(* One pass of the do-while loop: a bit period of delay, then either the  *)
(* break at the stop bit and the return, or the shift and the sample      *)
UartShift ==
    /\ rx.pc = "shift"
    /\ LET bit   == rx.bit - 1
           t     == rx.t + 2
           level == LineLevel(rx.wire[Len(rx.wire)], t)
       IN  IF bit = 0
           THEN rx' = [rx EXCEPT !.pc = "idle", !.bit = bit, !.t = t,
                                 !.out = Append(rx.out, rx.data)]
           ELSE rx' = [rx EXCEPT !.bit = bit, !.t = t,
                                 !.data = (rx.data \div 2) + 128 * level,
                                 !.samples = Append(rx.samples, <<t, level>>)]
    /\ UNCHANGED <<decVars, withDate, layout, gen, iterCap, pressCap, tzVars,
                   pinVars, dispVars, lightVars, pc, iter>>

InitUart == InitClock({<<>>}, {FALSE}, {LayoutNone}, {255}, 0, 0)

NextUart ==
    \/ UartCall
    \/ UartStartBit
    \/ UartShift

SpecUart == InitUart /\ [][NextUart]_vars

====
